---- MODULE Spec2Model ----
(***************************************************************************)
(* Client-side style-transfer pipeline: image preprocessing, tensor        *)
(* validation, ONNX inference through the model-session cache, output      *)
(* decoding and the simulation fallback.                                   *)
(*                                                                         *)
(* The specifications that share the module:                               *)
(*   Spec      the inference orchestrator (useStyleTransfer.transferStyle, *)
(*             loadModel, clearModelCache) under overlapping requests;     *)
(*   SpecRace  the same operations with one style and one image, for more  *)
(*             calls on one model file;                                    *)
(*   SpecCache the same operations on two model files, with sessions whose *)
(*             release() may throw;                                        *)
(*   SpecLive  SpecCache under the fairness of settled promises;           *)
(*   SpecPage  the page (Home) handling its events and starting the        *)
(*             transferStyle calls its effects make;                       *)
(*   SpecPre   ImagePreprocessor.preprocessImage as a function of the      *)
(*             source size and the preprocessing options;                  *)
(*   SpecNorm  per-sample normalisation followed by the output decoder's   *)
(*             conversion;                                                 *)
(*   SpecDecode one pixel of an output tensor through the output decoder;  *)
(*   SpecSim   repeated runs of the fallback simulator on one input.       *)
(***************************************************************************)
EXTENDS Integers, Sequences, FiniteSets, TLC

(***************************************************************************)
(* Bounds of the model.                                                    *)
(***************************************************************************)
\* transferStyle calls started in one behaviour of Spec
MaxCalls == 2
\* transferStyle calls started in one behaviour of SpecRace
MaxRaceCalls == 3
\* source images of SpecPre have edges 1..MaxSrc (plus the 300x450 scenario)
MaxSrc == 4
\* requested target edges of SpecPre are 0..MaxTarget (0: option omitted)
MaxTarget == 4

(***************************************************************************)
(* Generic helpers.                                                        *)
(***************************************************************************)
\* Math.round(n / d) for d > 0: floor(n/d + 0.5)
MathRound(n, d) == (2 * n + d) \div (2 * d)

\* Math.max(lo, Math.min(hi, v))
Clamp(lo, hi, v) == IF v < lo THEN lo ELSE IF v > hi THEN hi ELSE v

\* String.prototype.includes on names kept as sequences of words
Includes(name, words) ==
    \E i \in 0..(Len(name) - Len(words)) :
        SubSeq(name, i + 1, i + Len(words)) = words

\* `x ?? d` for an optional value kept as the empty set or a singleton
OrElse(x, d) == IF x = {} THEN d ELSE CHOOSE v \in x : TRUE

\* the product of the components of a shape
RECURSIVE Product(_)
Product(s) == IF s = <<>> THEN 1 ELSE Head(s) * Product(Tail(s))

\* the null of `string | null`; messages are sequences of message parts
Null == <<>>

(***************************************************************************)
(* Model registry.  mean and std are in thousandths (0.485 -> 485).        *)
(***************************************************************************)
AnimeGANMean == <<500, 500, 500>>
AnimeGANStd == <<500, 500, 500>>

\* ImagePreprocessor.DEFAULT_MEAN / DEFAULT_STD / DEFAULT_SIZE
DEFAULT_MEAN == <<485, 456, 406>>
DEFAULT_STD == <<229, 224, 225>>
DEFAULT_SIZE == 256

ONNX_MODELS ==
    [ k \in {"anime", "anime-shinkai", "picasso", "van-gogh", "cyberpunk"} |->
        CASE k = "anime" ->
               [ name |-> <<"Anime", "(Ghibli", "Style)">>,
                 filename |-> "AnimeGANv3_Hayao_36.onnx",
                 inputShape |-> <<1, 512, 512, 3>>,
                 mean |-> AnimeGANMean, std |-> AnimeGANStd,
                 maxInputSize |-> 512 ]
          [] k = "anime-shinkai" ->
               [ name |-> <<"Anime", "(Shinkai", "Style)">>,
                 filename |-> "AnimeGANv3_Shinkai_37.onnx",
                 inputShape |-> <<1, 512, 512, 3>>,
                 mean |-> AnimeGANMean, std |-> AnimeGANStd,
                 maxInputSize |-> 512 ]
          [] k = "picasso" ->
               [ name |-> <<"Picasso">>,
                 filename |-> "picasso.onnx",
                 inputShape |-> <<1, 3, 224, 224>>,
                 mean |-> DEFAULT_MEAN, std |-> DEFAULT_STD,
                 maxInputSize |-> 512 ]
          [] k = "van-gogh" ->
               [ name |-> <<"Van", "Gogh">>,
                 filename |-> "vangogh.onnx",
                 inputShape |-> <<1, 512, 512, 3>>,
                 mean |-> DEFAULT_MEAN, std |-> DEFAULT_STD,
                 maxInputSize |-> 512 ]
          [] k = "cyberpunk" ->
               [ name |-> <<"Cyberpunk">>,
                 filename |-> "cyberpunk.onnx",
                 inputShape |-> <<1, 512, 512, 3>>,
                 mean |-> DEFAULT_MEAN, std |-> DEFAULT_STD,
                 maxInputSize |-> 512 ] ]

getModelConfig(styleKey) == ONNX_MODELS[styleKey]

\* modelConfig.name.includes('Anime')
IsAnime(cfg) == Includes(cfg.name, <<"Anime">>)

\* getOptimalPreprocessingOptions: the Anime branch, and the forced-resize
\* and default branches, which return the same values.  Every branch reads
\* [_, height, width, __] from inputShape.
getOptimalPreprocessingOptions(cfg) ==
    LET height == cfg.inputShape[2]
        width == cfg.inputShape[3]
    IN  IF IsAnime(cfg) \/ Includes(cfg.name, <<"anime">>)
        THEN [ targetWidth |-> width, targetHeight |-> height,
               mean |-> cfg.mean, std |-> cfg.std,
               maintainAspectRatio |-> {TRUE}, padding |-> TRUE,
               outputFormat |-> "nhwc" ]
        ELSE [ targetWidth |-> width, targetHeight |-> height,
               mean |-> cfg.mean, std |-> cfg.std,
               maintainAspectRatio |-> {FALSE}, padding |-> FALSE,
               outputFormat |-> "nhwc" ]

(***************************************************************************)
(* Image preprocessor.  A canvas is its size [width, height]; an option    *)
(* that may be omitted is a number with 0 for "omitted" (x || DEFAULT), or *)
(* a set that is empty when omitted (x ?? default).                        *)
(***************************************************************************)
\* calculateDimensions that fits to the target width whatever the two aspect
\* ratios are
calculateDimensions_FitsWidth(originalWidth, originalHeight, targetWidth, targetHeight, maintainAspectRatio) ==
    IF ~maintainAspectRatio
    THEN [ width |-> targetWidth, height |-> targetHeight ]
    ELSE [ width |-> targetWidth,
           height |-> MathRound(targetWidth * originalHeight, originalWidth) ]

calculateDimensions(originalWidth, originalHeight, targetWidth, targetHeight, maintainAspectRatio) ==
    IF ~maintainAspectRatio
    THEN [ width |-> targetWidth, height |-> targetHeight ]
    ELSE \* aspectRatio > targetAspectRatio, cross-multiplied
         IF originalWidth * targetHeight > targetWidth * originalHeight
         THEN [ width |-> targetWidth,
                height |-> MathRound(targetWidth * originalHeight, originalWidth) ]
         ELSE [ width |-> MathRound(targetHeight * originalWidth, originalHeight),
                height |-> targetHeight ]

\* applyPadding: the canvas of the target size on which the resized canvas
\* is drawn at ((targetWidth - width) / 2, (targetHeight - height) / 2).
\* The offsets are kept doubled, in half pixels, since the code does not
\* round them.
applyPadding(canvas, targetWidth, targetHeight) ==
    [ width |-> targetWidth, height |-> targetHeight,
      offsetX2 |-> targetWidth - canvas.width,
      offsetY2 |-> targetHeight - canvas.height ]

\* the tag convertToRGBAndNormalize records for a canvas with pixels
NormalizationTypeOf(normalize, mean, std) ==
    IF ~normalize THEN "none"
    ELSE IF mean[1] = 500 /\ std[1] = 500 THEN "animegan"
    ELSE IF mean[1] = 485 /\ std[1] = 229 THEN "imagenet"
    ELSE "custom"

\* tensorShape of preprocessImage, from the outputFormat and the dimensions
\* calculateDimensions returned
TensorShapeOf(outputFormat, width, height) ==
    IF outputFormat = "nchw" THEN <<1, 3, height, width>>
                             ELSE <<1, height, width, 3>>

\* preprocessImage on a decoded source image.  ctxOk says whether
\* canvas.getContext('2d') returned a context.  A missing context, and a
\* canvas with a zero edge (getImageData, or drawImage of that canvas,
\* throws), end in the rethrown "Image preprocessing failed".
preprocessImage(image, options, ctxOk) ==
    LET finalWidth == IF options.targetWidth = 0 THEN DEFAULT_SIZE
                      ELSE options.targetWidth
        finalHeight == IF options.targetHeight = 0 THEN DEFAULT_SIZE
                       ELSE options.targetHeight
        dims == calculateDimensions(image.width, image.height,
                                    finalWidth, finalHeight,
                                    OrElse(options.maintainAspectRatio, TRUE))
        resizedCanvas == [ width |-> dims.width, height |-> dims.height ]
        finalCanvas == IF options.padding
                       THEN applyPadding(resizedCanvas, finalWidth, finalHeight)
                       ELSE resizedCanvas
        mean == OrElse(options.mean, DEFAULT_MEAN)
        std == OrElse(options.std, DEFAULT_STD)
        tensorShape == TensorShapeOf(options.outputFormat, dims.width, dims.height)
        actualCanvas == IF finalCanvas.width # finalWidth
                           \/ finalCanvas.height # finalHeight
                        THEN [ width |-> finalWidth, height |-> finalHeight ]
                        ELSE finalCanvas
    IN  IF ~ctxOk
        THEN [ ok |-> FALSE,
               error |-> <<"Image preprocessing failed",
                           "Failed to get canvas context">> ]
        ELSE IF resizedCanvas.width = 0 \/ resizedCanvas.height = 0
        THEN [ ok |-> FALSE,
               error |-> <<"Image preprocessing failed">> ]
        ELSE [ ok |-> TRUE,
               dataLength |-> actualCanvas.width * actualCanvas.height * 3,
               width |-> finalWidth,
               height |-> finalHeight,
               channels |-> 3,
               tensorShape |-> tensorShape,
               normalizationType |->
                   NormalizationTypeOf(OrElse(options.normalize, TRUE), mean, std),
               mean |-> mean,
               std |-> std ]

\* useImageUpload.processImage when preprocessing succeeds: the hook's
\* defaults, overridden by the options of the page
processImage(image, pageOptions) ==
    preprocessImage(image,
        [ targetWidth |-> pageOptions.targetWidth,
          targetHeight |-> pageOptions.targetHeight,
          normalize |-> {TRUE},
          mean |-> {pageOptions.mean},
          std |-> {pageOptions.std},
          maintainAspectRatio |-> pageOptions.maintainAspectRatio,
          padding |-> pageOptions.padding,
          outputFormat |-> pageOptions.outputFormat ],
        TRUE)

(***************************************************************************)
(* Tensor validator and input tensor.                                      *)
(***************************************************************************)
validatePreprocessedImage(img, cfg) ==
    LET isNCHW == Len(cfg.inputShape) = 4 /\ cfg.inputShape[2] = 3
        channels == IF isNCHW THEN cfg.inputShape[2] ELSE cfg.inputShape[4]
        height == IF isNCHW THEN cfg.inputShape[3] ELSE cfg.inputShape[2]
        width == IF isNCHW THEN cfg.inputShape[4] ELSE cfg.inputShape[3]
    IN  IF img.width # width \/ img.height # height
        THEN [ isValid |-> FALSE, error |-> <<"Image dimensions mismatch">> ]
        ELSE IF img.channels # channels
        THEN [ isValid |-> FALSE, error |-> <<"Channel mismatch">> ]
        ELSE IF Len(img.tensorShape) # 4
        THEN [ isValid |-> FALSE, error |-> <<"Invalid tensor shape">> ]
        ELSE IF img.tensorShape[1] # 1
        THEN [ isValid |-> FALSE, error |-> <<"Invalid batch size">> ]
        ELSE [ isValid |-> TRUE, error |-> Null ]

\* prepareInputTensor with a tensor constructor that takes any data: after
\* the warning the data is used as it is
prepareInputTensor_UsesDataAsIs(img, cfg) ==
    LET validation == validatePreprocessedImage(img, cfg)
    IN  IF ~validation.isValid
        THEN [ ok |-> FALSE,
               error |-> <<"Tensor validation failed">> \o validation.error ]
        ELSE [ ok |-> TRUE, error |-> Null,
               dims |-> cfg.inputShape, dataLength |-> img.dataLength ]

\* prepareInputTensor: the tensor takes its dims from the model's inputShape
\* and its data from the preprocessed image; the ort.Tensor constructor
\* throws when the data length is not the product of the dims.
prepareInputTensor(img, cfg) ==
    LET validation == validatePreprocessedImage(img, cfg)
        dims == cfg.inputShape
    IN  IF ~validation.isValid
        THEN [ ok |-> FALSE,
               error |-> <<"Tensor validation failed">> \o validation.error ]
        ELSE IF img.dataLength # Product(dims)
        THEN [ ok |-> FALSE,
               error |-> <<"Tensor's size does not match data length">> ]
        ELSE [ ok |-> TRUE, error |-> Null,
               dims |-> dims, dataLength |-> img.dataLength ]

\* runOnnxInference, lines 191-200: the dims of the tensor just built
\* against the model's inputShape
TensorDimsError(tensorDims, cfg) ==
    IF Len(tensorDims) # Len(cfg.inputShape)
    THEN <<"Tensor dimension mismatch">>
    ELSE IF \E i \in 1..Len(tensorDims) : tensorDims[i] # cfg.inputShape[i]
    THEN <<"Tensor dimension mismatch">>
    ELSE Null

\* runOnnxInference from the loaded session up to the call of session.run:
\* the error it throws, or Null when session.run is invoked
InferencePreparationError(img, cfg) ==
    LET t == prepareInputTensor(img, cfg)
    IN  IF ~t.ok THEN <<"Model inference failed">> \o t.error
        ELSE IF TensorDimsError(t.dims, cfg) # Null
        THEN <<"Model inference failed">> \o TensorDimsError(t.dims, cfg)
        ELSE Null

(***************************************************************************)
(* Output decoder and fallback simulator, as far as they succeed or throw. *)
(* outputs is the number of named outputs of session.run; ctxOk says       *)
(* whether canvas.getContext('2d') returned a context.                     *)
(***************************************************************************)
\* convertOutputToImage without the check of the first output tensor
convertOutputToImage_NoOutputCheck(outputs, cfg, ctxOk) ==
    IF ~ctxOk
    THEN [ ok |-> FALSE,
           error |-> <<"Output conversion failed", "Failed to get canvas context">> ]
    ELSE [ ok |-> TRUE, error |-> Null ]

convertOutputToImage(outputs, cfg, ctxOk) ==
    IF outputs = 0
    THEN [ ok |-> FALSE,
           error |-> <<"Output conversion failed", "No output tensor found">> ]
    ELSE IF ~ctxOk
    THEN [ ok |-> FALSE,
           error |-> <<"Output conversion failed", "Failed to get canvas context">> ]
    ELSE [ ok |-> TRUE, error |-> Null ]

\* simulateStyleTransfer: the Anime check sits inside the per-pixel loop
\* `for (i = 0; i < data.length; i += 3)`, so it is reached only when the
\* data buffer has at least one sample
simulateStyleTransfer(img, cfg, ctxOk) ==
    IF ~ctxOk
    THEN [ ok |-> FALSE, error |-> <<"Failed to get canvas context">> ]
    ELSE IF img.dataLength > 0 /\ IsAnime(cfg)
    THEN [ ok |-> FALSE,
           error |-> <<"Anime style requires direct use of Anime ONNX models">> ]
    ELSE [ ok |-> TRUE, error |-> Null ]

(***************************************************************************)
(* The results transferStyle passes to setResult.                          *)
(***************************************************************************)
NoResult == [ processingMethod |-> "null" ]

InferenceStatusMessage == <<"ONNX model inference completed successfully.">>
SimulationStatusMessage ==
    <<"ONNX model connection failed, showing simulation results.">>

\* lines 92-116, with inputTensor set by a successful runOnnxInference
InferenceResult ==
    [ styledImage |-> "onnx-image", error |-> Null,
      onnxStatus |-> "connected", processingMethod |-> "onnx",
      statusMessage |-> InferenceStatusMessage,
      inputTensor |-> TRUE, outputTensor |-> TRUE ]

\* FallbackResult with the caught onnxError reported in the result
FallbackResult_ReportsError(onnxError) ==
    [ styledImage |-> "simulation-image", error |-> onnxError,
      onnxStatus |-> "failed", processingMethod |-> "simulation",
      statusMessage |-> <<"Style transfer failed">> \o onnxError,
      inputTensor |-> FALSE, outputTensor |-> FALSE ]

\* lines 92-116, with inputTensor undefined after the catch of onnxError
FallbackResult(onnxError) ==
    [ styledImage |-> "simulation-image", error |-> Null,
      onnxStatus |-> "failed", processingMethod |-> "simulation",
      statusMessage |-> SimulationStatusMessage,
      inputTensor |-> FALSE, outputTensor |-> FALSE ]

\* FailureResult with the status of a call that never tried the model
FailureResult_NotAttempted(errorMessage) ==
    [ styledImage |-> "null", error |-> errorMessage,
      onnxStatus |-> "not_attempted", processingMethod |-> "none",
      statusMessage |-> <<"Style transfer failed">> \o errorMessage,
      inputTensor |-> FALSE, outputTensor |-> FALSE ]

\* lines 117-128
FailureResult(errorMessage) ==
    [ styledImage |-> "null", error |-> errorMessage,
      onnxStatus |-> "failed", processingMethod |-> "none",
      statusMessage |-> <<"Style transfer failed">> \o errorMessage,
      inputTensor |-> FALSE, outputTensor |-> FALSE ]

(***************************************************************************)
(* State.                                                                  *)
(***************************************************************************)
VARIABLES
    modelCache,      \* the module-level Map: filename -> session (0: no entry)
    created,         \* created[s]: the filename session s was created for
    releaseCalled,   \* sessions release() was called on
    evicted,         \* sessions that were cached when clearModelCache ran
    threw,           \* sessions whose release() threw
    loadCount,       \* InferenceSession.create calls per filename
    completed,       \* per filename: sessions returned by completed loadModel
                     \* calls since the last clearModelCache
    req,             \* the transferStyle calls, one record per slot
    calls,           \* transferStyle calls started so far
    result,          \* useStyleTransfer's `result` state
    isTransferring,  \* useStyleTransfer's `isTransferring` state
    page,            \* the page's state: processed image, selected style
    pre,             \* SpecPre: one preprocessImage call
    norm,            \* SpecNorm: one sample through normalise and decode
    pixel,           \* SpecDecode: one output pixel through the decoder
    sim              \* SpecSim: runs of the simulator on one input

orchVars == <<modelCache, created, releaseCalled, evicted, threw, loadCount,
              completed, req, calls, result, isTransferring, page>>
pureVars == <<pre, norm, pixel, sim>>
vars == <<modelCache, created, releaseCalled, evicted, threw, loadCount,
          completed, req, calls, result, isTransferring, page, pre, norm,
          pixel, sim>>

(***************************************************************************)
(* Inputs of the orchestrator.                                             *)
(***************************************************************************)
\* the two slots in which transferStyle calls overlap
Requests == {1, 2}

\* styles a request is made for
RequestStyles == {"anime", "van-gogh", "picasso"}

Filenames == { ONNX_MODELS[k].filename : k \in DOMAIN ONNX_MODELS }

NoSession == 0

\* the decoded source image of the requests
RequestSources == { [ width |-> 300, height |-> 450 ] }

\* styles selected on the page when the image was processed
ProcessingStyles == {"anime", "van-gogh"}

\* a PreprocessedImage whose data buffer is empty
EmptyImage ==
    [ ok |-> TRUE, dataLength |-> 0, width |-> 512, height |-> 512,
      channels |-> 3, tensorShape |-> <<1, 512, 512, 3>>,
      normalizationType |-> "none",
      mean |-> AnimeGANMean, std |-> AnimeGANStd ]

\* the images transferStyle is called with: what processImage produced under
\* the options of the style selected at that time, and the empty image
RequestImages ==
    { processImage(src, getOptimalPreprocessingOptions(getModelConfig(k))) :
          src \in RequestSources, k \in ProcessingStyles }
    \cup { EmptyImage }

\* the named outputs of a session.run that has not returned
NotRun == -1

IdleRequest ==
    [ pc |-> "idle", style |-> "anime", img |-> EmptyImage,
      session |-> NoSession, didCreate |-> FALSE, priorSess |-> {},
      onnxError |-> Null, ranOn |-> NoSession, outputs |-> NotRun,
      res |-> NoResult, seq |-> 0 ]

PreIdle == [ pc |-> "idle" ]
NormIdle == [ pc |-> "idle" ]
PixelIdle == [ pc |-> "idle" ]
SimIdle == [ pc |-> "idle" ]

\* the page after mount: no processed image, "anime" selected (page.tsx 28),
\* no event handled yet
PageIdle == [ image |-> {}, style |-> "anime", events |-> 0 ]

InitOrch ==
    /\ modelCache = [ f \in Filenames |-> NoSession ]
    /\ created = <<>>
    /\ releaseCalled = {}
    /\ evicted = {}
    /\ threw = {}
    /\ loadCount = [ f \in Filenames |-> 0 ]
    /\ completed = [ f \in Filenames |-> {} ]
    /\ req = [ r \in Requests |-> IdleRequest ]
    /\ calls = 0
    /\ result = NoResult
    /\ isTransferring = FALSE
    /\ page = PageIdle

Init ==
    /\ InitOrch
    /\ pre = PreIdle
    /\ norm = NormIdle
    /\ pixel = PixelIdle
    /\ sim = SimIdle

CfgOf(r) == getModelConfig(req[r].style)

\* a call starts in the first slot that holds no call in flight
FreeSlot(r) ==
    /\ req[r].pc \in {"idle", "done"}
    /\ \A q \in DOMAIN req : q < r => req[q].pc \notin {"idle", "done"}

\* a call at its first suspension: in loadModel, with the cached session or
\* waiting for InferenceSession.create; seq is its place in the order the
\* calls were started in
StartedCall(style, img, seq) ==
    LET f == getModelConfig(style).filename
        hit == modelCache[f] # NoSession
    IN  [ pc |-> IF hit THEN "loaded" ELSE "creating",
          style |-> style, img |-> img,
          session |-> modelCache[f],
          didCreate |-> ~hit,
          priorSess |-> completed[f],
          onnxError |-> Null, ranOn |-> NoSession,
          outputs |-> NotRun, res |-> NoResult, seq |-> seq ]

(***************************************************************************)
(* transferStyle up to its first suspension: setIsTransferring(true),      *)
(* setResult(null), runOnnxInference -> loadModel, which returns the       *)
(* cached session or calls InferenceSession.create.  limit caps the calls  *)
(* started in one behaviour.                                               *)
(***************************************************************************)
TransferStyle(r, style, img, limit) ==
    LET f == getModelConfig(style).filename
        hit == modelCache[f] # NoSession
    IN  /\ FreeSlot(r)
        /\ calls < limit
        /\ calls' = calls + 1
        /\ isTransferring' = TRUE
        /\ result' = NoResult
        /\ req' = [ req EXCEPT ![r] = StartedCall(style, img, calls + 1) ]
        /\ loadCount' = IF hit THEN loadCount
                        ELSE [ loadCount EXCEPT ![f] = @ + 1 ]
        /\ UNCHANGED <<modelCache, created, releaseCalled, evicted, threw,
                       completed, page, pureVars>>

\* InferenceSession.create resolves: modelCache.set(filename, session)
CreateResolve(r) ==
    LET f == CfgOf(r).filename
        s == Len(created) + 1
    IN  /\ req[r].pc = "creating"
        /\ created' = Append(created, f)
        /\ modelCache' = [ modelCache EXCEPT ![f] = s ]
        /\ completed' = [ completed EXCEPT ![f] = @ \cup {s} ]
        /\ req' = [ req EXCEPT ![r].pc = "loaded", ![r].session = s ]
        /\ UNCHANGED <<releaseCalled, evicted, threw, loadCount, calls, result,
                       isTransferring, page, pureVars>>

\* CreateReject with a loadModel that deletes the file's cache entry when
\* the load fails
CreateReject_Evicts(r) ==
    /\ req[r].pc = "creating"
    /\ req' = [ req EXCEPT ![r].pc = "fallback",
                           ![r].onnxError = <<"Model inference failed",
                                              "Failed to load model",
                                              "create rejected">> ]
    /\ modelCache' = [ modelCache EXCEPT ![CfgOf(r).filename] = NoSession ]
    /\ UNCHANGED <<created, releaseCalled, evicted, threw, loadCount,
                   completed, calls, result, isTransferring, page, pureVars>>

\* InferenceSession.create rejects (missing or corrupt file): loadModel
\* throws, runOnnxInference rethrows, transferStyle catches onnxError
CreateReject(r) ==
    /\ req[r].pc = "creating"
    /\ req' = [ req EXCEPT ![r].pc = "fallback",
                           ![r].onnxError = <<"Model inference failed",
                                              "Failed to load model",
                                              "create rejected">> ]
    /\ UNCHANGED <<modelCache, created, releaseCalled, evicted, threw, loadCount,
                   completed, calls, result, isTransferring, page, pureVars>>

\* runOnnxInference after loadModel returned: prepareInputTensor, the dims
\* check, and the call of session.run
RunInference(r) ==
    LET e == InferencePreparationError(req[r].img, CfgOf(r))
    IN  /\ req[r].pc = "loaded"
        /\ req' = IF e = Null
                  THEN [ req EXCEPT ![r].pc = "running",
                                    ![r].ranOn = req[r].session ]
                  ELSE [ req EXCEPT ![r].pc = "fallback",
                                    ![r].onnxError = e ]
        /\ UNCHANGED <<modelCache, created, releaseCalled, evicted, threw,
                       loadCount, completed, calls, result, isTransferring,
                       page, pureVars>>

\* session.run resolves with `outputs` named outputs; convertOutputToImage
\* either yields the image, and transferStyle sets the inference result, or
\* throws, and transferStyle catches onnxError
RunResolve(r, outputs, ctxOk) ==
    LET c == convertOutputToImage(outputs, CfgOf(r), ctxOk)
    IN  /\ req[r].pc = "running"
        /\ IF c.ok
           THEN /\ req' = [ req EXCEPT ![r].pc = "done",
                                       ![r].outputs = outputs,
                                       ![r].res = InferenceResult ]
                /\ result' = InferenceResult
                /\ isTransferring' = FALSE
           ELSE /\ req' = [ req EXCEPT ![r].pc = "fallback",
                                       ![r].outputs = outputs,
                                       ![r].onnxError =
                                           <<"Model inference failed">> \o c.error ]
                /\ UNCHANGED <<result, isTransferring>>
        /\ UNCHANGED <<modelCache, created, releaseCalled, evicted, threw,
                       loadCount, completed, calls, page, pureVars>>

\* session.run rejects
RunReject(r) ==
    /\ req[r].pc = "running"
    /\ req' = [ req EXCEPT ![r].pc = "fallback",
                           ![r].onnxError = <<"Model inference failed",
                                              "session.run rejected">> ]
    /\ UNCHANGED <<modelCache, created, releaseCalled, evicted, threw, loadCount,
                   completed, calls, result, isTransferring, page, pureVars>>

\* Fallback without the outer catch and the finally of transferStyle: when
\* the simulator throws, the call ends with no result set and isTransferring
\* left as it was
Fallback_NoOuterCatch(r, ctxOk) ==
    LET styled == simulateStyleTransfer(req[r].img, CfgOf(r), ctxOk)
    IN  /\ req[r].pc = "fallback"
        /\ IF styled.ok
           THEN /\ req' = [ req EXCEPT ![r].pc = "done",
                               ![r].res = FallbackResult(req[r].onnxError) ]
                /\ result' = FallbackResult(req[r].onnxError)
                /\ isTransferring' = FALSE
           ELSE /\ req' = [ req EXCEPT ![r].pc = "done" ]
                /\ UNCHANGED <<result, isTransferring>>
        /\ UNCHANGED <<modelCache, created, releaseCalled, evicted, threw,
                       loadCount, completed, calls, page, pureVars>>

\* the catch of onnxError: simulateStyleTransfer on the preprocessed image,
\* then setResult with the simulation result, or with the failure result of
\* the outer catch when the simulator throws; finally setIsTransferring(false)
Fallback(r, ctxOk) ==
    LET styled == simulateStyleTransfer(req[r].img, CfgOf(r), ctxOk)
        res == IF styled.ok THEN FallbackResult(req[r].onnxError)
               ELSE FailureResult(styled.error)
    IN  /\ req[r].pc = "fallback"
        /\ req' = [ req EXCEPT ![r].pc = "done", ![r].res = res ]
        /\ result' = res
        /\ isTransferring' = FALSE
        /\ UNCHANGED <<modelCache, created, releaseCalled, evicted, threw,
                       loadCount, completed, calls, page, pureVars>>

\* the sessions held by the cache
CachedSessions == { modelCache[f] : f \in Filenames } \ {NoSession}

\* clearModelCache in which the first release() that throws ends the loop
\* and the call: the sessions after it are skipped and the cache is not
\* cleared
ClearModelCache_StopsAtThrow(throwers) ==
    LET cached == CachedSessions
        reached == { s \in cached : \A t \in throwers : s <= t }
    IN  /\ cached # {}
        /\ throwers \subseteq cached
        /\ releaseCalled' = releaseCalled \cup reached
        /\ evicted' = evicted \cup cached
        /\ threw' = threw \cup (throwers \cap reached)
        /\ modelCache' = IF throwers = {}
                         THEN [ f \in Filenames |-> NoSession ]
                         ELSE modelCache
        /\ completed' = IF throwers = {}
                        THEN [ f \in Filenames |-> {} ]
                        ELSE completed
        /\ UNCHANGED <<created, loadCount, req, calls, result,
                       isTransferring, page, pureVars>>

\* clearModelCache: release() is called on every cached session (a release
\* that throws, for the sessions in throwers, is caught and logged, and the
\* loop goes on), then modelCache.clear()
ClearModelCache(throwers) ==
    LET cached == CachedSessions
    IN  /\ cached # {}
        /\ throwers \subseteq cached
        /\ releaseCalled' = releaseCalled \cup cached
        /\ evicted' = evicted \cup cached
        /\ threw' = threw \cup throwers
        /\ modelCache' = [ f \in Filenames |-> NoSession ]
        /\ completed' = [ f \in Filenames |-> {} ]
        /\ UNCHANGED <<created, loadCount, req, calls, result,
                       isTransferring, page, pureVars>>

Next ==
    \/ \E r \in Requests, style \in RequestStyles, img \in RequestImages :
           TransferStyle(r, style, img, MaxCalls)
    \/ \E r \in Requests : CreateResolve(r)
    \/ \E r \in Requests : CreateReject(r)
    \/ \E r \in Requests : RunInference(r)
    \/ \E r \in Requests, outputs \in {0, 1}, ctxOk \in BOOLEAN :
           RunResolve(r, outputs, ctxOk)
    \/ \E r \in Requests : RunReject(r)
    \/ \E r \in Requests, ctxOk \in BOOLEAN : Fallback(r, ctxOk)
    \/ ClearModelCache({})

Spec == Init /\ [][Next]_vars

(***************************************************************************)
(* SpecRace: the same operations with every request made for one style and *)
(* one image, so that more calls fit in a behaviour.                       *)
(***************************************************************************)
RaceStyle == "van-gogh"
RaceImage ==
    processImage([ width |-> 300, height |-> 450 ],
                 getOptimalPreprocessingOptions(getModelConfig(RaceStyle)))

NextRace ==
    \/ \E r \in Requests :
           TransferStyle(r, RaceStyle, RaceImage, MaxRaceCalls)
    \/ \E r \in Requests : CreateResolve(r)
    \/ \E r \in Requests : CreateReject(r)
    \/ \E r \in Requests : RunInference(r)
    \/ \E r \in Requests, outputs \in {0, 1}, ctxOk \in BOOLEAN :
           RunResolve(r, outputs, ctxOk)
    \/ \E r \in Requests : RunReject(r)
    \/ \E r \in Requests, ctxOk \in BOOLEAN : Fallback(r, ctxOk)
    \/ ClearModelCache({})

SpecRace == Init /\ [][NextRace]_vars

(***************************************************************************)
(* SpecCache: the same operations with requests for two model files and    *)
(* one image, and with clearModelCache on sessions whose release() may     *)
(* throw.  In Spec and SpecRace no release() throws.                       *)
(***************************************************************************)
MaxCacheCalls == 2

CacheStyles == {"van-gogh", "picasso"}

NextCache ==
    \/ \E r \in Requests, style \in CacheStyles :
           TransferStyle(r, style, RaceImage, MaxCacheCalls)
    \/ \E r \in Requests : CreateResolve(r)
    \/ \E r \in Requests : CreateReject(r)
    \/ \E r \in Requests : RunInference(r)
    \/ \E r \in Requests, outputs \in {0, 1}, ctxOk \in BOOLEAN :
           RunResolve(r, outputs, ctxOk)
    \/ \E r \in Requests : RunReject(r)
    \/ \E r \in Requests, ctxOk \in BOOLEAN : Fallback(r, ctxOk)
    \/ \E throwers \in SUBSET CachedSessions : ClearModelCache(throwers)

SpecCache == Init /\ [][NextCache]_vars

(***************************************************************************)
(* SpecLive: SpecCache with every pending promise settled and every        *)
(* continuation run: InferenceSession.create and session.run resolve or    *)
(* reject, and the code after an await runs once its promise has settled.  *)
(***************************************************************************)
Settles(r) ==
    /\ WF_vars(CreateResolve(r) \/ CreateReject(r))
    /\ WF_vars(RunInference(r))
    /\ WF_vars((\E outputs \in {0, 1}, ctxOk \in BOOLEAN :
                    RunResolve(r, outputs, ctxOk)) \/ RunReject(r))
    /\ WF_vars(\E ctxOk \in BOOLEAN : Fallback(r, ctxOk))

SpecLive == Init /\ [][NextCache]_vars /\ \A r \in Requests : Settles(r)

(***************************************************************************)
(* SpecPage: the page driving the hook.  A page event is handled with the  *)
(* renders and effects it causes: the effect on [selectedStyle] (page.tsx  *)
(* 57-86) stores the style's config and options, and the two               *)
(* auto-inference effects (104-123, 125-131) call tryRunInference, which   *)
(* calls transferStyle with the image and config of its render.  The calls *)
(* an event starts are listed in the order the effects make them, each by  *)
(* the style key of the config it is made with.  The page never calls      *)
(* clearModelCache.                                                        *)
(***************************************************************************)
\* page events handled in one behaviour of SpecPage
MaxPageEvents == 2
\* transferStyle calls of the page in flight at once; an event whose calls
\* do not fit is not taken
MaxInFlight == 3

\* the slots in which the page's transferStyle calls overlap
PageSlots == 1..MaxInFlight

\* styles selectable on the page
PageStyles == {"anime", "van-gogh", "picasso"}

\* the decoded file the user selected
PageSources == { [ width |-> 300, height |-> 450 ] }

FreeSlots(rq) == { r \in DOMAIN rq : rq[r].pc \in {"idle", "done"} }

FirstFreeSlot(rq) ==
    CHOOSE r \in FreeSlots(rq) : \A q \in FreeSlots(rq) : r <= q

\* the slots after transferStyle was called once per entry of styles, the
\* first of the calls being call number seq
RECURSIVE StartCalls(_, _, _, _)
StartCalls(rq, styles, img, seq) ==
    IF styles = <<>> THEN rq
    ELSE StartCalls([ rq EXCEPT ![FirstFreeSlot(rq)] =
                          StartedCall(Head(styles), img, seq) ],
                    Tail(styles), img, seq + 1)

\* the hook after the transferStyle calls of one event, each up to its first
\* suspension; image is page.image as the calling renders saw it
CallTransferStyle(styles, image) ==
    LET missed(f) == { i \in 1..Len(styles) :
                           /\ getModelConfig(styles[i]).filename = f
                           /\ modelCache[f] = NoSession }
    IN  IF image = {} \/ styles = <<>>
        THEN UNCHANGED <<req, calls, isTransferring, loadCount>>
        ELSE /\ Len(styles) <= Cardinality(FreeSlots(req))
             /\ req' = StartCalls(req, styles, CHOOSE i \in image : TRUE,
                                  calls + 1)
             /\ calls' = calls + Len(styles)
             /\ isTransferring' = TRUE
             /\ loadCount' = [ f \in Filenames |->
                                 loadCount[f] + Cardinality(missed(f)) ]

\* the call of an auto-inference effect that runs only when the render has
\* no styleTransferResult (page.tsx 126)
IfNoResult(res, styles) == IF res = NoResult THEN styles ELSE <<>>

(***************************************************************************)
(* processImage resolved: setPreprocessedImage(processed).  The image was  *)
(* processed under the options the selected style's effect stored.  Effect *)
(* 104-123 calls tryRunInference; effect 125-131 calls it in the same      *)
(* flush when there is no result, and otherwise in the render that follows *)
(* the first call's setResult(null).                                       *)
(***************************************************************************)
ImageProcessed(src) ==
    LET options == getOptimalPreprocessingOptions(getModelConfig(page.style))
        processed == processImage(src, options)
    IN  /\ page.events < MaxPageEvents
        /\ processed.ok
        /\ page' = [ page EXCEPT !.image = {processed}, !.events = @ + 1 ]
        /\ CallTransferStyle(<<page.style, page.style>>, {processed})
        /\ result' = NoResult
        /\ UNCHANGED <<modelCache, created, releaseCalled, evicted, threw,
                       completed, pureVars>>

(***************************************************************************)
(* handleStyleChange: setSelectedStyle(style).  In the first render the    *)
(* config is still the old style's: effect 104-123 calls tryRunInference   *)
(* with it, and effect 125-131 does when there is no result.  After        *)
(* setCurrentModelConfig both effects run again with the new config, the   *)
(* second one because the first call has set the result to null.           *)
(***************************************************************************)
StyleChanged(style) ==
    /\ page.events < MaxPageEvents
    /\ style # page.style
    /\ page' = [ page EXCEPT !.style = style, !.events = @ + 1 ]
    /\ CallTransferStyle(<<page.style>> \o IfNoResult(result, <<page.style>>)
                             \o <<style, style>>,
                         page.image)
    /\ result' = IF page.image = {} THEN result ELSE NoResult
    /\ UNCHANGED <<modelCache, created, releaseCalled, evicted, threw,
                   completed, pureVars>>

(***************************************************************************)
(* StyleTransferResult's onClear (page.tsx 386): clearStyleTransferResult. *)
(* The component is rendered while there is a result; effect 125-131 runs  *)
(* on the cleared result and calls tryRunInference.                        *)
(***************************************************************************)
ResultCleared ==
    /\ page.events < MaxPageEvents
    /\ result # NoResult
    /\ page' = [ page EXCEPT !.events = @ + 1 ]
    /\ CallTransferStyle(<<page.style>>, page.image)
    /\ result' = NoResult
    /\ UNCHANGED <<modelCache, created, releaseCalled, evicted, threw,
                   completed, pureVars>>

(***************************************************************************)
(* The manual trigger (page.tsx 357-368), disabled without an image and    *)
(* while isTransferring: transferStyle; when its setResult(null) clears a  *)
(* result, effect 125-131 calls tryRunInference.                           *)
(***************************************************************************)
ManualTrigger ==
    /\ page.events < MaxPageEvents
    /\ page.image # {}
    /\ ~isTransferring
    /\ page' = [ page EXCEPT !.events = @ + 1 ]
    /\ CallTransferStyle(<<page.style>>
                             \o (IF result = NoResult THEN <<>>
                                 ELSE <<page.style>>),
                         page.image)
    /\ result' = NoResult
    /\ UNCHANGED <<modelCache, created, releaseCalled, evicted, threw,
                   completed, pureVars>>

InitPage ==
    /\ modelCache = [ f \in Filenames |-> NoSession ]
    /\ created = <<>>
    /\ releaseCalled = {}
    /\ evicted = {}
    /\ threw = {}
    /\ loadCount = [ f \in Filenames |-> 0 ]
    /\ completed = [ f \in Filenames |-> {} ]
    /\ req = [ r \in PageSlots |-> IdleRequest ]
    /\ calls = 0
    /\ result = NoResult
    /\ isTransferring = FALSE
    /\ page = PageIdle
    /\ pre = PreIdle
    /\ norm = NormIdle
    /\ pixel = PixelIdle
    /\ sim = SimIdle

NextPage ==
    \/ \E src \in PageSources : ImageProcessed(src)
    \/ \E style \in PageStyles : StyleChanged(style)
    \/ ResultCleared
    \/ ManualTrigger
    \/ \E r \in PageSlots : CreateResolve(r)
    \/ \E r \in PageSlots : CreateReject(r)
    \/ \E r \in PageSlots : RunInference(r)
    \/ \E r \in PageSlots, outputs \in {0, 1}, ctxOk \in BOOLEAN :
           RunResolve(r, outputs, ctxOk)
    \/ \E r \in PageSlots : RunReject(r)
    \/ \E r \in PageSlots, ctxOk \in BOOLEAN : Fallback(r, ctxOk)

SpecPage == InitPage /\ [][NextPage]_vars

(***************************************************************************)
(* SpecPre: one preprocessImage call on a bounded source image and option  *)
(* set.                                                                    *)
(***************************************************************************)
PreSources ==
    { [ width |-> w, height |-> h ] : w \in 1..MaxSrc, h \in 1..MaxSrc }
    \cup { [ width |-> 300, height |-> 450 ] }

PreTargets == (0..MaxTarget) \cup {512}

PreOptions ==
    { [ targetWidth |-> tw, targetHeight |-> th,
        normalize |-> n, mean |-> ms[1], std |-> ms[2],
        maintainAspectRatio |-> m, padding |-> p, outputFormat |-> f ] :
        tw \in PreTargets, th \in PreTargets,
        n \in { {}, {FALSE} },
        ms \in { <<{}, {}>>, <<{AnimeGANMean}, {AnimeGANStd}>> },
        m \in { {}, {TRUE}, {FALSE} },
        p \in BOOLEAN,
        f \in { "undefined", "nhwc", "nchw" } }

\* the target edge preprocessImage resolves from an option
RequestedTarget(t) == IF t = 0 THEN DEFAULT_SIZE ELSE t

InitPre ==
    /\ InitOrch
    /\ norm = NormIdle
    /\ pixel = PixelIdle
    /\ sim = SimIdle
    /\ pre \in { [ pc |-> "in", image |-> i, options |-> o, ctxOk |-> c ] :
                     i \in PreSources, o \in PreOptions, c \in BOOLEAN }

\* one call: dims is what calculateDimensions returned in it (lines 259-265)
\* and padded the canvas applyPadding drew, when options.padding is set
\* (lines 275-278)
Preprocess ==
    /\ pre.pc = "in"
    /\ pre' = [ pc |-> "out", image |-> pre.image, options |-> pre.options,
                ctxOk |-> pre.ctxOk,
                dims |-> calculateDimensions(pre.image.width, pre.image.height,
                            RequestedTarget(pre.options.targetWidth),
                            RequestedTarget(pre.options.targetHeight),
                            OrElse(pre.options.maintainAspectRatio, TRUE)),
                padded |-> IF pre.options.padding
                           THEN {applyPadding(
                                  calculateDimensions(pre.image.width,
                                      pre.image.height,
                                      RequestedTarget(pre.options.targetWidth),
                                      RequestedTarget(pre.options.targetHeight),
                                      OrElse(pre.options.maintainAspectRatio, TRUE)),
                                  RequestedTarget(pre.options.targetWidth),
                                  RequestedTarget(pre.options.targetHeight))}
                           ELSE {},
                out |-> preprocessImage(pre.image, pre.options, pre.ctxOk) ]
    /\ UNCHANGED <<orchVars, norm, pixel, sim>>

NextPre == Preprocess

SpecPre == InitPre /\ [][NextPre]_vars

(***************************************************************************)
(* SpecNorm: one pixel sample through convertToRGBAndNormalize and then    *)
(* through the conversion of convertOutputToImage.  A Float32Array element *)
(* is kept in fixed point, as the nearest multiple of 1/FloatScale, which  *)
(* is coarser than float32 over the range of the samples.                  *)
(***************************************************************************)
FloatScale == 4096

\* convertToRGBAndNormalize, lines 496-523, for sample x of channel c
normalizeSample(x, c, normalize, mean, std) ==
    IF normalize
    THEN IF mean[1] = 500 /\ std[1] = 500
         THEN \* (x / 255) * 2 - 1
              MathRound((2 * x - 255) * FloatScale, 255)
         ELSE \* (x / 255 - mean[c]) / std[c], for 'imagenet' and 'custom'
              MathRound((1000 * x - 255 * mean[c]) * FloatScale, 255 * std[c])
    ELSE \* x / 255
         MathRound(x * FloatScale, 255)

\* the branch convertOutputToImage takes for a model config
DecoderScheme(mean, std) ==
    IF mean[1] = 500 /\ std[1] = 500 THEN "animegan"
    ELSE IF mean[1] = 485 /\ std[1] = 229 THEN "imagenet"
    ELSE "custom"

\* decodeSample with the 0..1 conversion applied to every model
decodeSample_AlwaysUnitRange(v, mean, std) ==
    Clamp(0, 255, MathRound(v * 255, FloatScale))

\* convertOutputToImage, lines 386-404, for one sample v
decodeSample(v, mean, std) ==
    IF DecoderScheme(mean, std) = "animegan"
    THEN \* round(((v + 1) / 2) * 255)
         Clamp(0, 255, MathRound((v + FloatScale) * 255, 2 * FloatScale))
    ELSE \* round(v * 255), for the ImageNet and the custom branch
         Clamp(0, 255, MathRound(v * 255, FloatScale))

CustomMean == <<400, 400, 400>>
CustomStd == <<250, 250, 250>>

MeanStdPairs ==
    { <<AnimeGANMean, AnimeGANStd>>, <<DEFAULT_MEAN, DEFAULT_STD>>,
      <<CustomMean, CustomStd>> }

\* mean/std options that agree with a known scheme on the first channel only
FirstChannelPairs ==
    { << <<500, 400, 400>>, <<500, 250, 250>> >>,
      << <<485, 400, 400>>, <<229, 250, 250>> >> }

PreprocessingPairs == MeanStdPairs \cup FirstChannelPairs

InitNorm ==
    /\ InitOrch
    /\ pre = PreIdle
    /\ pixel = PixelIdle
    /\ sim = SimIdle
    /\ norm \in { [ pc |-> "in", x |-> x, c |-> c, normalize |-> n,
                    mean |-> o[1], std |-> o[2],
                    cfgMean |-> d[1], cfgStd |-> d[2] ] :
                      x \in 0..255, c \in 1..3, n \in BOOLEAN,
                      o \in PreprocessingPairs, d \in MeanStdPairs }

Normalize ==
    /\ norm.pc = "in"
    /\ norm' = [ norm EXCEPT
                   !.pc = "normalized" ] @@
               [ tag |-> NormalizationTypeOf(norm.normalize, norm.mean, norm.std),
                 value |-> normalizeSample(norm.x, norm.c, norm.normalize,
                                           norm.mean, norm.std) ]
    /\ UNCHANGED <<orchVars, pre, pixel, sim>>

Decode ==
    /\ norm.pc = "normalized"
    /\ norm' = [ norm EXCEPT !.pc = "decoded" ] @@
               [ byte |-> decodeSample(norm.value, norm.cfgMean, norm.cfgStd) ]
    /\ UNCHANGED <<orchVars, pre, pixel, sim>>

NextNorm == Normalize \/ Decode

SpecNorm == InitNorm /\ [][NextNorm]_vars

(***************************************************************************)
(* SpecDecode: one pixel of an output tensor through the pixel loop of     *)
(* convertOutputToImage.  A sample of the output tensor is a float32: a    *)
(* finite value in fixed point, NaN, or an infinity (value is its sign).   *)
(***************************************************************************)
\* finite samples are the multiples of 1/4 up to MaxSample/4 in magnitude
MaxSample == 8

\* a finite sample far outside every nominal range
HugeSample == 1000 * FloatScale

FiniteSamples ==
    { (k * FloatScale) \div 4 : k \in (0 - MaxSample)..MaxSample }
    \cup { HugeSample, 0 - HugeSample }

OutputSamples ==
    { [ kind |-> "finite", value |-> v ] : v \in FiniteSamples }
    \cup { [ kind |-> "nan", value |-> 0 ],
           [ kind |-> "inf", value |-> 1 ], [ kind |-> "inf", value |-> -1 ] }

\* decodeOutputSample with the rounded value stored in a byte array that
\* wraps (Uint8Array) and no Math.max / Math.min around it
decodeOutputSample_Wraps(s, mean, std) ==
    IF s.kind = "nan" THEN 0
    ELSE IF s.kind = "inf" THEN 0
    ELSE IF DecoderScheme(mean, std) = "animegan"
    THEN MathRound((s.value + FloatScale) * 255, 2 * FloatScale) % 256
    ELSE MathRound(s.value * 255, FloatScale) % 256

\* lines 386-408 for one sample: Math.round, Math.min and Math.max keep NaN,
\* which the Uint8ClampedArray of the ImageData stores as 0; an infinity is
\* clamped to the bound on its side
decodeOutputSample(s, mean, std) ==
    IF s.kind = "nan" THEN 0
    ELSE IF s.kind = "inf" THEN (IF s.value > 0 THEN 255 ELSE 0)
    ELSE decodeSample(s.value, mean, std)

\* lines 378-411 for one pixel: the bytes written for R, G, B and alpha
decodePixel(samples, mean, std) ==
    << decodeOutputSample(samples[1], mean, std),
       decodeOutputSample(samples[2], mean, std),
       decodeOutputSample(samples[3], mean, std),
       255 >>

InitDecode ==
    /\ InitOrch
    /\ pre = PreIdle
    /\ norm = NormIdle
    /\ sim = SimIdle
    /\ pixel \in { [ pc |-> "in", samples |-> <<r, g, b>>,
                     cfgMean |-> d[1], cfgStd |-> d[2] ] :
                       r \in OutputSamples, g \in OutputSamples,
                       b \in OutputSamples, d \in MeanStdPairs }

DecodePixel ==
    /\ pixel.pc = "in"
    /\ pixel' = [ pixel EXCEPT !.pc = "written" ] @@
                [ bytes |-> decodePixel(pixel.samples, pixel.cfgMean,
                                        pixel.cfgStd) ]
    /\ UNCHANGED <<orchVars, pre, norm, sim>>

NextDecode == DecodePixel

SpecDecode == InitDecode /\ [][NextDecode]_vars

(***************************************************************************)
(* SpecSim: repeated runs of simulateStyleTransfer on one preprocessed     *)
(* image of a single pixel, at position (0, 0), and one model config.      *)
(* Colour values are in thousandths of a byte unit.                        *)
(***************************************************************************)
\* runs of the simulator on the same input
MaxRuns == 2
\* the outcomes of the Math.random() calls of one run are 1..MaxDraw
MaxDraw == 2

\* a number stored in a Uint8ClampedArray: the nearest integer, ties to even
RoundHalfEven(n, d) ==
    LET q == n \div d
        m == n % d
    IN  IF 2 * m < d THEN q
        ELSE IF 2 * m > d THEN q + 1
        ELSE IF q % 2 = 0 THEN q ELSE q + 1

Min(a, b) == IF a < b THEN a ELSE b
Max(a, b) == IF a > b THEN a ELSE b

\* lines 467-471: Picasso
picassoChannel(c) ==
    IF c > 128000 THEN Min(255000, (c * 14) \div 10) ELSE Max(0, (c * 6) \div 10)

\* lines 472-502: Van Gogh at x = 0, y = 0, where waveX = 0, waveY = 0.3 and
\* intensity = 1.15
vanGoghPixel(rgb) ==
    LET r1 == Min(255000, (rgb[1] * 1845) \div 1000)
        g1 == Min(255000, (rgb[2] * 1630) \div 1000)
        b1 == Max(0, (rgb[3] * 715) \div 1000)
        r2 == IF r1 > 128000 THEN Min(255000, r1 + 25000) ELSE r1
        g2 == IF g1 > 128000 THEN Min(255000, g1 + 20000) ELSE g1
        b2 == Max(0, b1 - 40000)
    IN  IF r2 + g2 + b2 > 450000
        THEN << Min(255000, r2 + 15000), Min(255000, g2 + 10000), b2 >>
        ELSE << Max(0, r2 - 20000), Max(0, g2 - 15000), Max(0, b2 - 30000) >>

\* lines 503-508: Cyberpunk
cyberpunkPixel(rgb) ==
    << Min(255000, (rgb[1] * 15) \div 10),
       Max(0, (rgb[2] * 7) \div 10),
       Min(255000, (rgb[3] * 18) \div 10) >>

\* lines 448-514 for the pixel: Math.round(sample * 255), the filter of the
\* style, the clamp and the store into the ImageData
simulatePixel(samples, cfg) ==
    LET rgb == [ c \in 1..3 |-> 1000 * MathRound(samples[c] * 255, FloatScale) ]
        out == IF Includes(cfg.name, <<"Picasso">>)
               THEN [ c \in 1..3 |-> picassoChannel(rgb[c]) ]
               ELSE IF Includes(cfg.name, <<"Van", "Gogh">>)
               THEN vanGoghPixel(rgb)
               ELSE IF Includes(cfg.name, <<"Cyberpunk">>)
               THEN cyberpunkPixel(rgb)
               ELSE rgb
    IN  << RoundHalfEven(Clamp(0, 255000, out[1]), 1000),
           RoundHalfEven(Clamp(0, 255000, out[2]), 1000),
           RoundHalfEven(Clamp(0, 255000, out[3]), 1000),
           255 >>

\* applyVanGoghBrushStrokes: the strokes drawn over the image are placed,
\* sized, turned and coloured by the values Math.random() returned
applyVanGoghBrushStrokes(draw) == [ strokes |-> 50, random |-> draw ]

NoStrokes == [ strokes |-> 0, random |-> 0 ]

\* the image a run of simulateStyleTransfer returns, or its throw for an
\* Anime config
simulatedImage(samples, cfg, draw) ==
    IF IsAnime(cfg)
    THEN [ ok |-> FALSE, pixel |-> <<>>, overlay |-> NoStrokes ]
    ELSE [ ok |-> TRUE,
           pixel |-> simulatePixel(samples, cfg),
           overlay |-> IF Includes(cfg.name, <<"Van", "Gogh">>)
                       THEN applyVanGoghBrushStrokes(draw)
                       ELSE NoStrokes ]

\* samples of a preprocessed image: -1, 0, 0.5, 0.6, 1 and 2
SimSamples ==
    { 0 - FloatScale, 0, FloatScale \div 2, (FloatScale * 6) \div 10,
      FloatScale, 2 * FloatScale }

InitSim ==
    /\ InitOrch
    /\ pre = PreIdle
    /\ norm = NormIdle
    /\ pixel = PixelIdle
    /\ sim \in { [ pc |-> "in", style |-> k, samples |-> <<r, g, b>>,
                   runs |-> <<>> ] :
                     k \in DOMAIN ONNX_MODELS,
                     r \in SimSamples, g \in SimSamples, b \in SimSamples }

Simulate(draw) ==
    /\ sim.pc = "in"
    /\ Len(sim.runs) < MaxRuns
    /\ sim' = [ sim EXCEPT !.runs =
                   Append(@, simulatedImage(sim.samples,
                                            getModelConfig(sim.style), draw)) ]
    /\ UNCHANGED <<orchVars, pre, norm, pixel>>

NextSim == \E draw \in 1..MaxDraw : Simulate(draw)

SpecSim == InitSim /\ [][NextSim]_vars

(***************************************************************************)
(* Properties of the model registry (Spec).                                *)
(***************************************************************************)
\* C13: every entry of ONNX_MODELS a request is made for has an inputShape
\* of four dimensions in the order [batch, height, width, channels], with
\* batch 1 and 3 channels.
C13_RegistryShapesAreNHWC ==
    \A r \in Requests :
        req[r].pc # "idle" =>
            /\ Len(ONNX_MODELS[req[r].style].inputShape) = 4
            /\ ONNX_MODELS[req[r].style].inputShape[1] = 1
            /\ ONNX_MODELS[req[r].style].inputShape[4] = 3

(***************************************************************************)
(* Properties of the session cache (SpecRace).                             *)
(***************************************************************************)
\* C1: a loadModel(f) call that starts after a loadModel(f) call completed
\* successfully, with no clearModelCache in between, does not call
\* InferenceSession.create and returns the session that call returned.
C1_LaterLoadReturnsSameSession ==
    \A r \in Requests :
        (req[r].pc # "idle" /\ req[r].priorSess # {}) =>
            /\ ~req[r].didCreate
            /\ req[r].priorSess = {req[r].session}

\* C2: while one request awaits InferenceSession.create for a filename, no
\* second request awaits a create of its own for the same filename.
C2_SingleLoadInFlight ==
    \A r1, r2 \in Requests :
        (r1 # r2 /\ req[r1].pc = "creating" /\ req[r2].pc = "creating") =>
            CfgOf(r1).filename # CfgOf(r2).filename

\* sessions created for f on which release() has not been called
LiveSessions(f) ==
    { s \in 1..Len(created) : created[s] = f /\ s \notin releaseCalled }

\* C3: every model filename has at most one live session.
C3_AtMostOneLiveSession ==
    \A f \in Filenames : Cardinality(LiveSessions(f)) <= 1

\* C11: a clearModelCache call leaves the cache empty and has called
\* release() on every session the cache held when it was called, whether or
\* not a release() threw.
C11_ClearReleasesEverySession ==
    [][ (evicted' # evicted) =>
            /\ \A f \in Filenames : modelCache'[f] = NoSession
            /\ CachedSessions \subseteq releaseCalled' ]_vars

\* clearModelCache has emptied a cache of the sessions of two model files,
\* the release() of the older one threw, and release() was called on both
C11_Witness ==
    /\ Cardinality(evicted) = 2
    /\ \E t \in threw : \E s \in evicted : t < s /\ created[t] # created[s]
    /\ evicted \subseteq releaseCalled
    /\ CachedSessions = {}

\* the step sets the cache entry of one file to the session a load has
\* just created, and changes no other entry
InsertsLoadedSession ==
    /\ Len(created') = Len(created) + 1
    /\ \E f \in Filenames :
           modelCache' = [ modelCache EXCEPT ![f] = Len(created') ]

\* the step is the full clear: every session the cache held has release()
\* called in this step and the cache is left empty
ClearsWholeCache ==
    /\ \A f \in Filenames : modelCache'[f] = NoSession
    /\ CachedSessions \cap releaseCalled = {}
    /\ CachedSessions \subseteq releaseCalled'

\* the step is a failure of the inference of some call (load, validation,
\* session.run or decoding)
InferenceFails ==
    \E r \in Requests : req[r].pc # "fallback" /\ req'[r].pc = "fallback"

\* C22: the cache changes only by the insertion of a session by a
\* successful load and by the full clear of clearModelCache; a failing
\* load, validation or session.run leaves it unchanged.
C22_CacheChangesByInsertOrClear ==
    [][ /\ modelCache' # modelCache => InsertsLoadedSession \/ ClearsWholeCache
        /\ InferenceFails => modelCache' = modelCache ]_vars

\* the cache holds the session of one model file after the load of another
\* model file failed
C22_Witness ==
    \E r \in Requests :
        /\ Includes(req[r].onnxError, <<"Failed to load model">>)
        /\ modelCache[CfgOf(r).filename] = NoSession
        /\ CachedSessions # {}

(***************************************************************************)
(* Properties of preprocessImage (SpecPre).                                *)
(***************************************************************************)
\* C4: the tensorShape of a returned PreprocessedImage has the requested
\* target height and width as its spatial dimensions, in the layout of
\* outputFormat.
C4_TensorShapeIsTarget ==
    (pre.pc = "out" /\ pre.out.ok) =>
        pre.out.tensorShape =
            TensorShapeOf(pre.options.outputFormat,
                          RequestedTarget(pre.options.targetWidth),
                          RequestedTarget(pre.options.targetHeight))

\* C20: with maintainAspectRatio on (or omitted) the dimensions
\* calculateDimensions returns fit inside the target box and one of them
\* equals the target; with it off they are the target dimensions.
C20_DimensionsFitTargetBox ==
    (pre.pc = "out") =>
        LET targetWidth == RequestedTarget(pre.options.targetWidth)
            targetHeight == RequestedTarget(pre.options.targetHeight)
        IN  IF OrElse(pre.options.maintainAspectRatio, TRUE)
            THEN /\ pre.dims.width <= targetWidth
                 /\ pre.dims.height <= targetHeight
                 /\ pre.dims.width = targetWidth
                        \/ pre.dims.height = targetHeight
            ELSE pre.dims = [ width |-> targetWidth, height |-> targetHeight ]

\* a portrait source was fitted into a square box by its height
C20_Witness ==
    /\ pre.pc = "out"
    /\ pre.image = [ width |-> 300, height |-> 450 ]
    /\ pre.options.targetWidth = 512 /\ pre.options.targetHeight = 512
    /\ pre.options.maintainAspectRatio = {TRUE}
    /\ pre.dims = [ width |-> 341, height |-> 512 ]

\* C21: when padding is applied the resized image is drawn at whole-pixel
\* offsets on a canvas of the target size: the leading margin is
\* floor((target - size) / 2) and the trailing margin is the rest.
C21_PaddingAtWholePixels ==
    (pre.pc = "out" /\ pre.out.ok) =>
        \A c \in pre.padded :
            /\ c.width = RequestedTarget(pre.options.targetWidth)
            /\ c.height = RequestedTarget(pre.options.targetHeight)
            /\ c.offsetX2 = 2 * ((c.width - pre.dims.width) \div 2)
            /\ c.offsetY2 = 2 * ((c.height - pre.dims.height) \div 2)

(***************************************************************************)
(* Properties of the fallback path (Spec).                                 *)
(***************************************************************************)
Done(r) == req[r].pc = "done"

\* C5: a call for a style outside the Anime category whose inference failed
\* (validation, load, session.run or decoding) ends with the simulation
\* result: processingMethod 'simulation', an image, and no error.
C5_FailureEndsInSimulation ==
    \A r \in Requests :
        (Done(r) /\ req[r].onnxError # Null /\ ~IsAnime(CfgOf(r))) =>
            /\ req[r].res.processingMethod = "simulation"
            /\ req[r].res.styledImage # "null"
            /\ req[r].res.error = Null

\* C6: a call whose preprocessed tensorShape differs from the model's
\* inputShape never invokes session.run.
C6_ShapeMismatchNeverRuns ==
    \A r \in Requests :
        (req[r].pc # "idle" /\ req[r].img.tensorShape # CfgOf(r).inputShape) =>
            /\ req[r].pc # "running"
            /\ req[r].ranOn = NoSession

\* C7: a call for an Anime model that did not end with the inference result
\* ends in the explicit failure: an error, no image, processingMethod
\* 'none'.
C7_AnimeNeverSimulated ==
    \A r \in Requests :
        (Done(r) /\ IsAnime(CfgOf(r))
                 /\ req[r].res.processingMethod # "onnx") =>
            /\ req[r].res.processingMethod = "none"
            /\ req[r].res.styledImage = "null"
            /\ req[r].res.error # Null

\* C8: a call for a style outside the Anime category never ends with
\* processingMethod 'none'.
C8_NonAnimeNeverFails ==
    \A r \in Requests :
        (Done(r) /\ ~IsAnime(CfgOf(r))) =>
            req[r].res.processingMethod # "none"

\* C9 as stated: the simulation result carries the message of the error
\* that triggered the fallback.
C9_FallbackCarriesTriggerMessage ==
    \A r \in Requests :
        (Done(r) /\ req[r].res.processingMethod = "simulation") =>
            /\ req[r].res.error = Null
            /\ Includes(req[r].res.statusMessage, req[r].onnxError)

\* C9 as amended: the simulation result was triggered by an error, reports
\* no error, and carries the same fixed, non-empty status message whatever
\* the triggering error was.
C9_FallbackCarriesFixedMessage ==
    \A r \in Requests :
        (Done(r) /\ req[r].res.processingMethod = "simulation") =>
            /\ req[r].onnxError # Null
            /\ req[r].res.error = Null
            /\ req[r].res.statusMessage = SimulationStatusMessage
            /\ req[r].res.statusMessage # Null

\* two calls have ended on the fallback path after different errors
C9_Witness ==
    /\ \A r \in Requests :
           Done(r) /\ req[r].res.processingMethod = "simulation"
    /\ req[1].onnxError # req[2].onnxError

\* C15: a call whose session.run returned zero named outputs has failed in
\* output decoding with the missing-output error, is on the fallback path,
\* and does not end with the inference result.
C15_NoOutputsTakesFallback ==
    \A r \in Requests :
        req[r].outputs = 0 =>
            /\ req[r].pc \in {"fallback", "done"}
            /\ Includes(req[r].onnxError, <<"No output tensor found">>)
            /\ req[r].res.processingMethod # "onnx"
            /\ Done(r) => ~req[r].res.inputTensor

\* a call whose session.run returned zero named outputs has ended with the
\* simulation result
C15_Witness ==
    \E r \in Requests :
        /\ Done(r)
        /\ req[r].outputs = 0
        /\ req[r].ranOn # NoSession
        /\ req[r].res.processingMethod = "simulation"

\* the data buffer of the call's image is not as long as the product of the
\* model's inputShape
DataLengthMismatch(r) ==
    req[r].img.dataLength # Product(CfgOf(r).inputShape)

Validated(r) ==
    /\ req[r].pc \in {"running", "fallback", "done"}
    /\ req[r].session # NoSession

\* C18: the validator rejects every image whose tensorShape differs from
\* the model's inputShape in some component: such a call fails with the
\* validator's error.
C18_ValidatorComparesTensorShape ==
    \A r \in Requests :
        (Validated(r) /\ req[r].img.tensorShape # CfgOf(r).inputShape) =>
            /\ ~validatePreprocessedImage(req[r].img, CfgOf(r)).isValid
            /\ Includes(req[r].onnxError, <<"Tensor validation failed">>)

(***************************************************************************)
(* Termination of a request (SpecLive).                                    *)
(***************************************************************************)
InFlight(r) == req[r].pc \in {"creating", "loaded", "running", "fallback"}

\* C12: every started transferStyle call eventually completes, with a
\* result that is not null set as the hook's result and isTransferring set
\* back to false.
C12_EveryCallCompletes ==
    \A r \in Requests :
        InFlight(r) ~> /\ Done(r)
                       /\ req[r].res # NoResult
                       /\ result = req[r].res
                       /\ ~isTransferring

\* a call whose inference failed and whose simulator threw has completed
\* with the failure result, after a call that completed with the inference
\* result
C12_Witness ==
    /\ Done(1) /\ req[1].res = InferenceResult
    /\ Done(2) /\ req[2].res.processingMethod = "none"
    /\ result = req[2].res
    /\ ~isTransferring

(***************************************************************************)
(* Properties of normalisation and decoding (SpecNorm).                    *)
(***************************************************************************)
Decoded == norm.pc = "decoded"

\* the sample was normalised with the symmetric scheme and decoded with the
\* symmetric conversion
SymmetricPair ==
    norm.tag = "animegan" /\ DecoderScheme(norm.cfgMean, norm.cfgStd) = "animegan"

\* the sample was normalised with the channel-statistics scheme and decoded
\* with the conversion of the ImageNet models
StatisticsPair ==
    norm.tag = "imagenet" /\ DecoderScheme(norm.cfgMean, norm.cfgStd) = "imagenet"

\* the sample was mapped to 0..1 and decoded with a 0..1 conversion
IdentityPair ==
    norm.tag = "none" /\ DecoderScheme(norm.cfgMean, norm.cfgStd) # "animegan"

\* C10 as stated: for the symmetric, the channel-statistics and the identity
\* scheme, decoding the normalised sample returns the pixel value, up to
\* one unit of rounding.
C10_RoundTripEveryScheme ==
    (Decoded /\ (SymmetricPair \/ StatisticsPair \/ IdentityPair)) =>
        (norm.byte - norm.x \in {-1, 0, 1})

\* C10 as amended: for the symmetric and the identity scheme, decoding the
\* normalised sample returns the pixel value exactly.
C10_RoundTripSymmetricAndIdentity ==
    (Decoded /\ (SymmetricPair \/ IdentityPair)) => norm.byte = norm.x

\* a mid-range sample went through the symmetric scheme and back
C10_Witness ==
    Decoded /\ SymmetricPair /\ norm.x = 128 /\ norm.value # 0 /\ norm.byte = 128

\* C19: the tag recorded for a normalised sample identifies the formula:
\* 'animegan' only for mean and std 0.5 on every channel, 'imagenet' only
\* for the ImageNet statistics on every channel, 'none' exactly when
\* normalize is off, and 'custom' for every other mean/std pair.
C19_TagIdentifiesScheme ==
    (norm.pc \in {"normalized", "decoded"}) =>
        LET symmetric == norm.mean = AnimeGANMean /\ norm.std = AnimeGANStd
            statistics == norm.mean = DEFAULT_MEAN /\ norm.std = DEFAULT_STD
        IN  /\ norm.tag = "none" <=> ~norm.normalize
            /\ norm.tag = "animegan" => norm.normalize /\ symmetric
            /\ norm.tag = "imagenet" => norm.normalize /\ statistics
            /\ (norm.normalize /\ ~symmetric /\ ~statistics) =>
                   norm.tag = "custom"

(***************************************************************************)
(* Properties of the output decoder (SpecDecode).                          *)
(***************************************************************************)
\* the value of sample s is at or above v (in units of 1/FloatScale)
AtLeast(s, v) ==
    \/ s.kind = "inf" /\ s.value > 0
    \/ s.kind = "finite" /\ s.value >= v

\* the value of sample s is at or below v
AtMost(s, v) ==
    \/ s.kind = "inf" /\ s.value < 0
    \/ s.kind = "finite" /\ s.value <= v

\* the sample value the decoder of a model maps to byte 0
BlackLevel(mean, std) ==
    IF DecoderScheme(mean, std) = "animegan" THEN 0 - FloatScale ELSE 0

\* C14: every R, G and B byte the decoder writes lies in 0..255, a sample at
\* or above the top of the model's output range gives 255 and one at or
\* below its bottom gives 0 (clamped, not wrapped), and the alpha byte is
\* 255.
C14_BytesClampedAlphaOpaque ==
    (pixel.pc = "written") =>
        /\ \A c \in 1..3 :
               /\ pixel.bytes[c] \in 0..255
               /\ AtLeast(pixel.samples[c], FloatScale) =>
                      pixel.bytes[c] = 255
               /\ AtMost(pixel.samples[c],
                         BlackLevel(pixel.cfgMean, pixel.cfgStd)) =>
                      pixel.bytes[c] = 0
        /\ pixel.bytes[4] = 255

\* a pixel with a sample far above the range, one far below it and a NaN
\* has been written
C14_Witness ==
    /\ pixel.pc = "written"
    /\ pixel.samples[1] = [ kind |-> "finite", value |-> HugeSample ]
    /\ pixel.samples[2] = [ kind |-> "finite", value |-> 0 - HugeSample ]
    /\ pixel.samples[3].kind = "nan"
    /\ pixel.bytes = <<255, 0, 0, 255>>

(***************************************************************************)
(* Properties of the fallback simulator (SpecSim).                         *)
(***************************************************************************)
\* C16: any two runs of the simulator on the same preprocessed image and
\* the same model config return the same image.
C16_SimulatorDeterministic ==
    (sim.pc = "in") =>
        \A i, j \in 1..Len(sim.runs) : sim.runs[i] = sim.runs[j]

(***************************************************************************)
(* Properties of the page (SpecPage)                                       *)
(***************************************************************************)
CallsInFlight == { r \in DOMAIN req : InFlight(r) }

\* C23: the page serializes requests: at no time are two transferStyle
\* calls in flight at once, whatever sequence of image-processed,
\* style-changed, result-cleared and manual-trigger events it handles.
C23_OneCallInFlight == Cardinality(CallsInFlight) <= 1

\* the call in slot r was started with an image processed under the options
\* of the style it was made for
ProcessedForOwnStyle(r) ==
    /\ req[r].pc # "idle"
    /\ \E src \in PageSources :
           req[r].img =
               processImage(src, getOptimalPreprocessingOptions(CfgOf(r)))

\* C24: for every model of the registry, an image preprocessed with the
\* options getOptimalPreprocessingOptions returns for the model passes
\* validatePreprocessedImage against that model: the target size read from
\* inputShape agrees with the size the validator reads from it.
C24_OptimalOptionsPassValidation ==
    \A r \in DOMAIN req :
        ProcessedForOwnStyle(r) =>
            validatePreprocessedImage(req[r].img, CfgOf(r)).isValid

(***************************************************************************)
(* Shapes of the results (Spec)                                            *)
(***************************************************************************)
OnnxShape(x) ==
    /\ x.processingMethod = "onnx" /\ x.onnxStatus = "connected"
    /\ x.inputTensor /\ x.outputTensor
    /\ x.styledImage # "null" /\ x.error = Null

SimulationShape(x) ==
    /\ x.processingMethod = "simulation" /\ x.onnxStatus = "failed"
    /\ ~x.inputTensor /\ ~x.outputTensor
    /\ x.styledImage # "null" /\ x.error = Null

FailureShape(x) ==
    /\ x.processingMethod = "none" /\ x.onnxStatus = "failed"
    /\ x.styledImage = "null" /\ x.error # Null

ExactlyOneShape(x) ==
    Cardinality({ i \in 1..3 : <<OnnxShape(x), SimulationShape(x),
                                 FailureShape(x)>>[i] }) = 1

\* C25: every result transferStyle sets has exactly one of three shapes:
\* 'onnx' with status 'connected', both tensors, an image and no error;
\* 'simulation' with status 'failed', no tensors, an image and no error; or
\* 'none' with status 'failed', no image and an error.
C25_ResultShapes ==
    /\ result # NoResult => ExactlyOneShape(result)
    /\ \A r \in Requests : Done(r) => ExactlyOneShape(req[r].res)

\* two calls completed, one with the inference result and one with the
\* failure result, and a result is stored
C25_Witness ==
    /\ result # NoResult
    /\ \E r1, r2 \in Requests :
           /\ Done(r1) /\ OnnxShape(req[r1].res)
           /\ Done(r2) /\ FailureShape(req[r2].res)

(***************************************************************************)
(* Overlapping calls of the page (SpecPage)                                *)
(***************************************************************************)
\* C26: isTransferring is true whenever at least one transferStyle call is
\* in flight: the completion of one call does not set it to false while
\* another call is still running.
C26_TransferringWhileInFlight == CallsInFlight # {} => isTransferring

\* the slot of the most recently started call
LatestCall ==
    CHOOSE r \in DOMAIN req : \A q \in DOMAIN req : req[q].seq <= req[r].seq

\* C27: once all overlapping transferStyle calls have completed, the stored
\* result is the one of the most recently started call: an earlier, slower
\* call never overwrites the result of a later one.
C27_LatestCallWins ==
    (calls > 0 /\ CallsInFlight = {}) => result = req[LatestCall].res

(***************************************************************************)
(* Released sessions (SpecCache)                                           *)
(***************************************************************************)
\* C28: a session that clearModelCache has released is never used
\* afterwards: no session.run is started on, or still in flight on, a
\* session release() was called on.
C28_ReleasedSessionUnused ==
    \A r \in Requests :
        req[r].pc = "running" => req[r].ranOn \notin releaseCalled

(***************************************************************************)
(* Decoder scheme of a request (SpecPage)                                  *)
(***************************************************************************)
\* the call's session.run returned outputs, which convertOutputToImage
\* decodes
ReachedDecoding(r) == req[r].outputs # NotRun /\ req[r].outputs > 0

C30_DimensionsAtLeastOne ==
    ( /\ pre.pc = "out"
      /\ OrElse(pre.options.maintainAspectRatio, TRUE)
      /\ pre.image.width >= 1 /\ pre.image.height >= 1 ) =>
        pre.dims.width >= 1 /\ pre.dims.height >= 1

====
